---- MODULE Spec2Model ----
(***************************************************************************)
(* Ledger engine of ventas_pro: the express + better-sqlite3 server        *)
(* (sessions, products, movements, sales, sale_items) and its HTTP         *)
(* handlers.  Every handler is a synchronous callback, so in Spec one      *)
(* action is one whole request; a db.transaction either commits or, when a *)
(* statement throws, leaves the database as it was when the transaction    *)
(* began.  SpecConc shows the movement and sale handlers under requests    *)
(* that arrive concurrently.                                               *)
(***************************************************************************)
EXTENDS Integers, Sequences, FiniteSets, TLC

VARIABLES
    db,     \* the five tables of business.db, each a sequence indexed by row id
    req,    \* the last request served
    res,    \* the response sent for it
    served, \* the number of requests served so far
    used,       \* history: some request has obtained the current session
    lastGet,    \* history: the id the last GET /api/sessions/current returned and
                \* the number of such requests since the last close
    lastClose,  \* history: the body of the last POST /api/sessions/close response
    inbox,      \* requests the server has received whose handler has not started
    frames,     \* handlers that are past their checks and before their transaction
    products,   \* the client: the product list of the App component
    cart,       \* the client: the cart of the App component
    localStorage,   \* the client: the vpro_ keys of the offline mirror
    call        \* the client: the last call of a cart function or of the api

vars == <<db, req, res, served, used, lastGet, lastClose, inbox, frames,
          products, cart, localStorage, call>>

\* the state of the server and the state of the client
server == <<db, req, res, served, used, lastGet, lastClose, inbox, frames>>
client == <<products, cart, localStorage, call>>

(***************************************************************************)
(* Bounds of the model and the input sets of the requests.                 *)
(***************************************************************************)
MaxCalls == 4
MaxRequests == 2

ProductIds == {1, 2}
Names == {"a"}
Prices == {1}
Stocks == {0, 2}
Quantities == {-1, 1}
Types == {"entry", "waste", "sale", "other"}
Reasons == {"r"}
PaymentMethods == {"cash", "card"}
Totals == {3}
ItemPrices == {3}
IdParams == {<<"1">>, <<"2">>, <<"x">>}

NULL == "NULL"
NOW == "CURRENT_TIMESTAMP"

\* the carts of a sale: none, one or two items, the same product twice included
Items == [id : ProductIds, quantity : Quantities, price : ItemPrices]
ItemLists == {<<>>} \cup {<<i>> : i \in Items} \cup {<<i, j>> : i \in Items, j \in Items}

(***************************************************************************)
(* Helpers.                                                                *)
(***************************************************************************)
Max(S) == CHOOSE x \in S : \A y \in S : y <= x

Resp(status, error, body) == [status |-> status, error |-> error, body |-> body]

EmptyDB == [sessions |-> <<>>, products |-> <<>>, movements |-> <<>>,
            sales |-> <<>>, sale_items |-> <<>>]

\* parseInt(req.params.id): the leading decimal digits, NaN when there are none
Digits == <<"0", "1", "2", "3", "4", "5", "6", "7", "8", "9">>
IsDigit(c) == \E k \in DOMAIN Digits : Digits[k] = c
DigitVal(c) == (CHOOSE k \in DOMAIN Digits : Digits[k] = c) - 1

RECURSIVE parseDigits(_, _, _)
parseDigits(s, i, acc) ==
    IF i > Len(s) \/ ~IsDigit(s[i]) THEN acc
    ELSE parseDigits(s, i + 1, acc * 10 + DigitVal(s[i]))

parseInt(s) ==
    IF Len(s) = 0 \/ ~IsDigit(s[1]) THEN [isNaN |-> TRUE, val |-> 0]
    ELSE [isNaN |-> FALSE, val |-> parseDigits(s, 1, 0)]

(***************************************************************************)
(* Sessions.                                                               *)
(***************************************************************************)
OpenSessions(d) == {i \in DOMAIN d.sessions : d.sessions[i].is_closed = 0}

\* INSERT INTO sessions (is_closed) VALUES (0)
InsertSession(d) ==
    [d EXCEPT !.sessions = Append(@, [is_closed |-> 0, end_time |-> NULL])]

\* mutant: a new session on every call, without looking for an open one
getCurrentSessionAlwaysNew(d) ==
    [db |-> InsertSession(d), id |-> Len(d.sessions) + 1]

\* mutant: SELECT ... ORDER BY id LIMIT 1 without the is_closed condition
getCurrentSessionFirstRow(d) ==
    IF DOMAIN d.sessions # {}
    THEN [db |-> d, id |-> 1]
    ELSE [db |-> InsertSession(d), id |-> Len(d.sessions) + 1]

\* SELECT ... WHERE is_closed = 0 ORDER BY id DESC LIMIT 1, inserting when none
getCurrentSession(d) ==
    IF OpenSessions(d) # {}
    THEN [db |-> d, id |-> Max(OpenSessions(d))]
    ELSE [db |-> InsertSession(d), id |-> Len(d.sessions) + 1]

\* mutant: UPDATE sessions SET is_closed = (id = ?), which reopens every other
\* session
MarkClosedReopeningOthers(d, id) ==
    [d EXCEPT !.sessions =
        [i \in DOMAIN d.sessions |->
            IF i = id THEN [is_closed |-> 1, end_time |-> NOW]
            ELSE [is_closed |-> 0, end_time |-> NULL]]]

\* mutant: the close that sets the flag and forgets the end time
MarkClosedNoEndTime(d, id) ==
    [d EXCEPT !.sessions[id] = [is_closed |-> 1, end_time |-> NULL]]

\* UPDATE sessions SET is_closed = 1, end_time = CURRENT_TIMESTAMP WHERE id = ?
MarkClosed(d, id) ==
    [d EXCEPT !.sessions[id] = [is_closed |-> 1, end_time |-> NOW]]

\* mutant: the close that forgets to open the next session
CloseTransactionNoReopen(d) ==
    LET s == getCurrentSession(d)
        d1 == MarkClosed(s.db, s.id)
    IN [db |-> d1, closed_id |-> s.id, new_id |-> Len(d1.sessions) + 1]

\* the transaction of POST /api/sessions/close
CloseTransaction(d) ==
    LET s == getCurrentSession(d)
        d1 == MarkClosed(s.db, s.id)
        d2 == InsertSession(d1)
    IN [db |-> d2, closed_id |-> s.id, new_id |-> Len(d2.sessions)]

CloseSessionHandler(d) ==
    LET t == CloseTransaction(d)
    IN [db |-> t.db,
        res |-> Resp(200, "", [closed_id |-> t.closed_id, new_id |-> t.new_id])]

CurrentSessionHandler(d) ==
    LET s == getCurrentSession(d)
    IN [db |-> s.db, res |-> Resp(200, "", [id |-> s.id, is_closed |-> 0])]

HistoryHandler(d) ==
    [db |-> d,
     res |-> Resp(200, "", {i \in DOMAIN d.sessions : d.sessions[i].is_closed = 1})]

(***************************************************************************)
(* Products.                                                               *)
(***************************************************************************)
ListProductsHandler(d) ==
    [db |-> d,
     res |-> Resp(200, "", {i \in DOMAIN d.products : d.products[i].deleted = 0})]

\* mutant: the insert that leaves initial_stock to its column default
AddProductHandlerDefaultInitialStock(d, name, price, initial_stock) ==
    IF name = NULL
    THEN [db |-> d, res |-> Resp(500, "Failed to create product", <<>>)]
    ELSE [db |-> [d EXCEPT !.products =
                    Append(@, [name |-> name, price |-> price,
                               stock |-> initial_stock,
                               initial_stock |-> 0, deleted |-> 0])],
          res |-> Resp(200, "", [id |-> Len(d.products) + 1])]

\* INSERT INTO products (name, price, stock, initial_stock); name is NOT NULL
AddProductHandler(d, name, price, initial_stock) ==
    IF name = NULL
    THEN [db |-> d, res |-> Resp(500, "Failed to create product", <<>>)]
    ELSE [db |-> [d EXCEPT !.products =
                    Append(@, [name |-> name, price |-> price,
                               stock |-> initial_stock,
                               initial_stock |-> initial_stock, deleted |-> 0])],
          res |-> Resp(200, "", [id |-> Len(d.products) + 1])]

\* mutant: the update that also reprices the sale items of the product
UpdateProductRepricingItems(d, idParam, name, price, stock) ==
    LET id == parseInt(idParam)
    IN IF id.isNaN
       THEN [db |-> d, res |-> Resp(400, "Invalid product ID", <<>>)]
       ELSE IF id.val \notin DOMAIN d.products
       THEN [db |-> d, res |-> Resp(200, "", [changes |-> 0])]
       ELSE IF name = NULL
       THEN [db |-> d, res |-> Resp(500, "NOT NULL constraint failed", <<>>)]
       ELSE [db |-> [d EXCEPT !.products[id.val] =
                       [@ EXCEPT !.name = name, !.price = price, !.stock = stock],
                                !.sale_items =
                       [k \in DOMAIN d.sale_items |->
                           IF d.sale_items[k].product_id = id.val
                           THEN [d.sale_items[k] EXCEPT !.price_at_sale = price]
                           ELSE d.sale_items[k]]],
             res |-> Resp(200, "", [changes |-> 1])]

\* mutant: the update that takes the new stock as the initial stock too
UpdateProductResettingInitialStock(d, idParam, name, price, stock) ==
    LET id == parseInt(idParam)
    IN IF id.isNaN
       THEN [db |-> d, res |-> Resp(400, "Invalid product ID", <<>>)]
       ELSE IF id.val \notin DOMAIN d.products
       THEN [db |-> d, res |-> Resp(200, "", [changes |-> 0])]
       ELSE IF name = NULL
       THEN [db |-> d, res |-> Resp(500, "NOT NULL constraint failed", <<>>)]
       ELSE [db |-> [d EXCEPT !.products[id.val] =
                       [@ EXCEPT !.name = name, !.price = price, !.stock = stock,
                                 !.initial_stock = stock]],
             res |-> Resp(200, "", [changes |-> 1])]

\* UPDATE products SET name = ?, price = ?, stock = ? WHERE id = ?
UpdateProductHandler(d, idParam, name, price, stock) ==
    LET id == parseInt(idParam)
    IN IF id.isNaN
       THEN [db |-> d, res |-> Resp(400, "Invalid product ID", <<>>)]
       ELSE IF id.val \notin DOMAIN d.products
       THEN [db |-> d, res |-> Resp(200, "", [changes |-> 0])]
       ELSE IF name = NULL
       THEN [db |-> d, res |-> Resp(500, "NOT NULL constraint failed", <<>>)]
       ELSE [db |-> [d EXCEPT !.products[id.val] =
                       [@ EXCEPT !.name = name, !.price = price, !.stock = stock]],
             res |-> Resp(200, "", [changes |-> 1])]

\* mutant: the delete that also removes the movements of the product
DeleteProductCascading(d, idParam) ==
    LET id == parseInt(idParam)
    IN IF id.isNaN
       THEN [db |-> d, res |-> Resp(400, "Invalid product ID", <<>>)]
       ELSE IF id.val \notin DOMAIN d.products
       THEN [db |-> d, res |-> Resp(200, "", [changes |-> 0])]
       ELSE [db |-> [d EXCEPT !.products[id.val].deleted = 1,
                              !.movements =
                                  SelectSeq(@, LAMBDA m : m.product_id # id.val)],
             res |-> Resp(200, "", [changes |-> 1])]

\* UPDATE products SET deleted = 1 WHERE id = ?
DeleteProductHandler(d, idParam) ==
    LET id == parseInt(idParam)
    IN IF id.isNaN
       THEN [db |-> d, res |-> Resp(400, "Invalid product ID", <<>>)]
       ELSE IF id.val \notin DOMAIN d.products
       THEN [db |-> d, res |-> Resp(200, "", [changes |-> 0])]
       ELSE [db |-> [d EXCEPT !.products[id.val].deleted = 1],
             res |-> Resp(200, "", [changes |-> 1])]

(***************************************************************************)
(* Inventory movements: POST /api/inventory/move.                          *)
(***************************************************************************)
MovementTypes == {"entry", "waste", "sale"}     \* CHECK(type IN (...))
SalePayments == {"cash", "transfer"}            \* CHECK(payment_method IN (...))

\* mutant: the new stock with the sign of a waste inverted
NewStockWasteAdds(stock, type, quantity) ==
    IF type = "entry" THEN stock + quantity
    ELSE IF type = "waste" THEN stock + quantity
    ELSE stock

NewStock(stock, type, quantity) ==
    IF type = "entry" THEN stock + quantity
    ELSE IF type = "waste" THEN stock - quantity
    ELSE stock

\* mutant: the waste guard off by one
InsufficientForWasteOffByOne(stock, type, quantity) ==
    type = "waste" /\ stock + 1 < quantity

\* the waste guard: product.stock < quantity
InsufficientForWaste(stock, type, quantity) ==
    type = "waste" /\ stock < quantity

\* mutant: the handler without its product lookup, taking a missing stock as 0
MoveCheckNoLookup(d, product_id, type, quantity) ==
    LET s == getCurrentSession(d)
        stock == IF product_id \in DOMAIN s.db.products
                 THEN s.db.products[product_id].stock ELSE 0
    IN IF InsufficientForWaste(stock, type, quantity)
       THEN [db |-> s.db, done |-> TRUE,
             res |-> Resp(400, "Insufficient stock for waste", <<>>)]
       ELSE [db |-> s.db, done |-> FALSE, session |-> s.id, read |-> stock,
             newStock |-> NewStock(stock, type, quantity)]

\* the part of the handler before its transaction: the session, the product
\* lookup and the stock check
MoveCheck(d, product_id, type, quantity) ==
    LET s == getCurrentSession(d)
    IN IF product_id \notin DOMAIN s.db.products
       THEN [db |-> s.db, done |-> TRUE, res |-> Resp(404, "Product not found", <<>>)]
       ELSE IF InsufficientForWaste(s.db.products[product_id].stock, type, quantity)
       THEN [db |-> s.db, done |-> TRUE,
             res |-> Resp(400, "Insufficient stock for waste", <<>>)]
       ELSE [db |-> s.db, done |-> FALSE, session |-> s.id,
             read |-> s.db.products[product_id].stock,
             newStock |-> NewStock(s.db.products[product_id].stock, type, quantity)]

\* db.transaction: UPDATE products SET stock = ?; INSERT INTO movements
MoveTransaction(d, session, product_id, type, quantity, reason, newStock) ==
    LET d1 == [d EXCEPT !.products[product_id].stock = newStock]
        d2 == [d1 EXCEPT !.movements =
                 Append(@, [session_id |-> session, product_id |-> product_id,
                            type |-> type, quantity |-> quantity, reason |-> reason])]
    IN IF type \in MovementTypes
       THEN [db |-> d2, res |-> Resp(200, "", [newStock |-> newStock])]
       ELSE [db |-> d, res |-> Resp(500, "Failed to record movement", <<>>)]

MoveHandler(d, product_id, type, quantity, reason) ==
    LET c == MoveCheck(d, product_id, type, quantity)
    IN IF c.done THEN [db |-> c.db, res |-> c.res]
       ELSE MoveTransaction(c.db, c.session, product_id, type, quantity, reason,
                            c.newStock)

(***************************************************************************)
(* Sales: POST /api/sales.                                                 *)
(***************************************************************************)
\* mutant: the sale stamped with the first session instead of the current one
InsertSaleFirstSession(d, session, total, payment_method) ==
    [d EXCEPT !.sales = Append(@, [session_id |-> 1, total |-> total,
                                   payment_method |-> payment_method])]

\* INSERT INTO sales (session_id, total, payment_method)
InsertSale(d, session, total, payment_method) ==
    [d EXCEPT !.sales = Append(@, [session_id |-> session, total |-> total,
                                   payment_method |-> payment_method])]

\* mutant: the item pass that takes one unit whatever the quantity
SellItemOneUnit(d, saleId, session, item) ==
    [d EXCEPT !.sale_items = Append(@, [sale_id |-> saleId, product_id |-> item.id,
                                        quantity |-> item.quantity,
                                        price_at_sale |-> item.price]),
              !.products[item.id].stock = @ - 1,
              !.movements = Append(@, [session_id |-> session, product_id |-> item.id,
                                       type |-> "sale", quantity |-> item.quantity,
                                       reason |-> "Venta"])]

\* one pass of the item loop: sale_items row, stock decrement, movement row
SellItem(d, saleId, session, item) ==
    [d EXCEPT !.sale_items = Append(@, [sale_id |-> saleId, product_id |-> item.id,
                                        quantity |-> item.quantity,
                                        price_at_sale |-> item.price]),
              !.products[item.id].stock = @ - item.quantity,
              !.movements = Append(@, [session_id |-> session, product_id |-> item.id,
                                       type |-> "sale", quantity |-> item.quantity,
                                       reason |-> "Venta"])]

\* mutant: the loop that checks the stock for its first item only
RECURSIVE SaleLoopChecksFirstOnly(_, _, _, _, _)
SaleLoopChecksFirstOnly(d, saleId, session, items, i) ==
    IF i > Len(items) THEN [ok |-> TRUE, db |-> d, error |-> ""]
    ELSE IF items[i].id \notin DOMAIN d.products
    THEN [ok |-> FALSE, db |-> d, error |-> "TypeError"]
    ELSE IF i = 1 /\ d.products[items[i].id].stock < items[i].quantity
    THEN [ok |-> FALSE, db |-> d, error |-> "Insufficient stock"]
    ELSE SaleLoopChecksFirstOnly(SellItem(d, saleId, session, items[i]), saleId,
                                 session, items, i + 1)

\* for (const item of items): stops at the first item that throws
RECURSIVE SaleLoop(_, _, _, _, _)
SaleLoop(d, saleId, session, items, i) ==
    IF i > Len(items) THEN [ok |-> TRUE, db |-> d, error |-> ""]
    ELSE IF items[i].id \notin DOMAIN d.products
    THEN [ok |-> FALSE, db |-> d, error |-> "TypeError"]
    ELSE IF d.products[items[i].id].stock < items[i].quantity
    THEN [ok |-> FALSE, db |-> d, error |-> "Insufficient stock"]
    ELSE SaleLoop(SellItem(d, saleId, session, items[i]), saleId, session, items, i + 1)

\* mutant: the sale without a transaction, keeping what ran before the throw
SaleNoRollback(d, session, items, payment_method, total) ==
    IF payment_method \notin SalePayments
    THEN [ok |-> FALSE, db |-> d, error |-> "CHECK constraint failed", saleId |-> 0]
    ELSE LET d1 == InsertSale(d, session, total, payment_method)
             l == SaleLoop(d1, Len(d1.sales), session, items, 1)
         IN [ok |-> l.ok, db |-> l.db, error |-> l.error,
             saleId |-> IF l.ok THEN Len(d1.sales) ELSE 0]

\* db.transaction of the sale: commits the loop's result, or rolls back to d
SaleTransaction(d, session, items, payment_method, total) ==
    IF payment_method \notin SalePayments
    THEN [ok |-> FALSE, db |-> d, error |-> "CHECK constraint failed", saleId |-> 0]
    ELSE LET d1 == InsertSale(d, session, total, payment_method)
             l == SaleLoop(d1, Len(d1.sales), session, items, 1)
         IN IF l.ok
            THEN [ok |-> TRUE, db |-> l.db, error |-> "", saleId |-> Len(d1.sales)]
            ELSE [ok |-> FALSE, db |-> d, error |-> l.error, saleId |-> 0]

\* res.json({ success: true, saleId }), or the catch block's 400
SaleResponse(t) ==
    IF t.ok
    THEN [db |-> t.db, res |-> Resp(200, "", [saleId |-> t.saleId])]
    ELSE [db |-> t.db, res |-> Resp(400, t.error, <<>>)]

SaleHandler(d, items, payment_method, total) ==
    LET s == getCurrentSession(d)
    IN SaleResponse(SaleTransaction(s.db, s.id, items, payment_method, total))

(***************************************************************************)
(* Reports.                                                                *)
(***************************************************************************)
\* the integer a text parameter compares equal to in an INTEGER column
RECURSIVE AllDigits(_, _)
AllDigits(s, i) == i > Len(s) \/ (IsDigit(s[i]) /\ AllDigits(s, i + 1))

MatchesId(idParam, n) ==
    Len(idParam) > 0 /\ AllDigits(idParam, 1) /\ parseDigits(idParam, 1, 0) = n

\* the session ids a text parameter compares equal to
MatchingIds(d, idParam) ==
    {n \in DOMAIN d.sessions
           \cup {d.sales[i].session_id : i \in DOMAIN d.sales}
           \cup {d.movements[i].session_id : i \in DOMAIN d.movements} :
        MatchesId(idParam, n)}

\* mutant: SELECT * FROM sales without its WHERE
SalesOfAll(d, ids) == DOMAIN d.sales

\* SELECT * FROM sales WHERE session_id = ?
SalesOf(d, ids) == {i \in DOMAIN d.sales : d.sales[i].session_id \in ids}

\* mutant: the join that leaves out soft-deleted products
MovementsOfLiveProducts(d, ids) ==
    {[id |-> i, product_name |-> d.products[d.movements[i].product_id].name] :
        i \in {j \in DOMAIN d.movements :
                 /\ d.movements[j].session_id \in ids
                 /\ d.movements[j].product_id \in DOMAIN d.products
                 /\ d.products[d.movements[j].product_id].deleted = 0}}

\* SELECT m.*, p.name FROM movements m JOIN products p ON m.product_id = p.id
MovementsOf(d, ids) ==
    {[id |-> i, product_name |-> d.products[d.movements[i].product_id].name] :
        i \in {j \in DOMAIN d.movements :
                 /\ d.movements[j].session_id \in ids
                 /\ d.movements[j].product_id \in DOMAIN d.products}}

ReportSessionHandler(d, idParam) ==
    [db |-> d,
     res |-> Resp(200, "", [sales |-> SalesOf(d, MatchingIds(d, idParam)),
                            movements |-> MovementsOf(d, MatchingIds(d, idParam))])]

ReportCurrentHandler(d) ==
    LET s == getCurrentSession(d)
    IN [db |-> s.db,
        res |-> Resp(200, "", [sales |-> SalesOf(s.db, {s.id}),
                               movements |-> MovementsOf(s.db, {s.id}),
                               session |-> s.id])]

(***************************************************************************)
(* The client before its first call: an empty product list, an empty cart  *)
(* and no vpro_ key in localStorage, each of which reads as [].            *)
(***************************************************************************)
EmptyLocalStorage == [sessions |-> <<>>, products |-> <<>>, movements |-> <<>>,
                      sales |-> <<>>]

NoCall == [fn |-> "none"]

ClientInit ==
    /\ products = <<>>
    /\ cart = <<>>
    /\ localStorage = EmptyLocalStorage
    /\ call = NoCall

(***************************************************************************)
(* The server: one action per route.                                       *)
(***************************************************************************)
\* the routes whose handler calls getCurrentSession()
SessionOps == {"getCurrentSession", "closeSession", "recordMovement", "checkout",
               "reportCurrent"}

NoClose == [closed_id |-> 0, new_id |-> 0]
NoGet == [id |-> 0, n |-> 0]

History(r, out) ==
    /\ used' = (used \/ r.op \in SessionOps)
    /\ lastGet' = IF r.op = "getCurrentSession"
                  THEN [id |-> out.res.body.id, n |-> lastGet.n + 1]
                  ELSE IF r.op = "closeSession" THEN NoGet
                  ELSE lastGet
    /\ lastClose' = IF r.op = "closeSession" THEN out.res.body ELSE lastClose

Serve(r, out) ==
    /\ served < MaxCalls
    /\ served' = served + 1
    /\ db' = out.db
    /\ req' = r
    /\ res' = out.res
    /\ History(r, out)
    /\ UNCHANGED <<inbox, frames, client>>

GetCurrentSession ==
    Serve([op |-> "getCurrentSession"], CurrentSessionHandler(db))

GetHistory ==
    Serve([op |-> "history"], HistoryHandler(db))

CloseSession ==
    Serve([op |-> "closeSession"], CloseSessionHandler(db))

ListProducts ==
    Serve([op |-> "listProducts"], ListProductsHandler(db))

AddProduct ==
    \E name \in Names \cup {NULL}, price \in Prices, stock \in Stocks :
        Serve([op |-> "addProduct", name |-> name, price |-> price,
               initial_stock |-> stock],
              AddProductHandler(db, name, price, stock))

UpdateProduct ==
    \E id \in IdParams, name \in Names \cup {NULL}, price \in Prices, stock \in Stocks :
        Serve([op |-> "updateProduct", id |-> id, name |-> name, price |-> price,
               stock |-> stock],
              UpdateProductHandler(db, id, name, price, stock))

DeleteProduct ==
    \E id \in IdParams :
        Serve([op |-> "softDeleteProduct", id |-> id], DeleteProductHandler(db, id))

RecordMovement ==
    \E p \in ProductIds, t \in Types, q \in Quantities, r \in Reasons :
        Serve([op |-> "recordMovement", product_id |-> p, type |-> t,
               quantity |-> q, reason |-> r],
              MoveHandler(db, p, t, q, r))

Checkout ==
    \E items \in ItemLists, pm \in PaymentMethods, total \in Totals :
        Serve([op |-> "checkout", items |-> items, payment_method |-> pm,
               total |-> total],
              SaleHandler(db, items, pm, total))

ReportForSession ==
    \E id \in IdParams :
        Serve([op |-> "reportForSession", id |-> id], ReportSessionHandler(db, id))

ReportCurrent ==
    Serve([op |-> "reportCurrent"], ReportCurrentHandler(db))

Init ==
    /\ db = EmptyDB
    /\ req = [op |-> "none"]
    /\ res = Resp(0, "", <<>>)
    /\ served = 0
    /\ used = FALSE
    /\ lastGet = NoGet
    /\ lastClose = NoClose
    /\ inbox = {}
    /\ frames = {}
    /\ ClientInit

Next ==
    \/ GetCurrentSession
    \/ GetHistory
    \/ CloseSession
    \/ ListProducts
    \/ AddProduct
    \/ UpdateProduct
    \/ DeleteProduct
    \/ RecordMovement
    \/ Checkout
    \/ ReportForSession
    \/ ReportCurrent

Spec == Init /\ [][Next]_vars

(***************************************************************************)
(* The server under concurrently issued requests.  Clients send movement   *)
(* and sale requests at any time; the event loop hands one received        *)
(* request at a time to its handler.  A handler is shown in two steps,     *)
(* the part before its db.transaction and the transaction itself, so that  *)
(* what may come between the two is what the event loop allows.            *)
(***************************************************************************)
ConcStocks == {0, 1, 2}
ConcProducts == {1}
ConcItemLists == {l \in ItemLists : Len(l) >= 1 /\ \A k \in 1..Len(l) : l[k].id \in ConcProducts}

Received == served + Cardinality(inbox) + Cardinality(frames)

\* mutant: handlers that yield to the event loop before their transaction
CanDispatchWhileSuspended == TRUE

\* a handler is a plain synchronous callback: it runs to completion before the
\* event loop starts another one
CanDispatch == frames = {}

ReceiveMove ==
    \E p \in ConcProducts, t \in {"entry", "waste"}, q \in Quantities, r \in Reasons :
        /\ Received < MaxRequests
        /\ inbox' = inbox \cup {[n |-> Received + 1, op |-> "recordMovement",
                                 product_id |-> p, type |-> t,
                                 quantity |-> q, reason |-> r]}
        /\ UNCHANGED <<db, req, res, served, used, lastGet, lastClose, frames, client>>

ReceiveSale ==
    \E items \in ConcItemLists, total \in Totals :
        /\ Received < MaxRequests
        /\ inbox' = inbox \cup {[n |-> Received + 1, op |-> "checkout",
                                 items |-> items, payment_method |-> "cash",
                                 total |-> total]}
        /\ UNCHANGED <<db, req, res, served, used, lastGet, lastClose, frames, client>>

\* POST /api/inventory/move up to its transaction: it answers at once when the
\* product is missing or the waste exceeds the stock
BeginMove ==
    \E r \in inbox :
        /\ r.op = "recordMovement"
        /\ CanDispatch
        /\ inbox' = inbox \ {r}
        /\ used' = TRUE
        /\ LET c == MoveCheck(db, r.product_id, r.type, r.quantity)
           IN /\ db' = c.db
              /\ IF c.done
                 THEN /\ req' = r
                      /\ res' = c.res
                      /\ served' = served + 1
                      /\ UNCHANGED frames
                 ELSE /\ frames' = frames \cup
                             {[r |-> r, session |-> c.session, read |-> c.read,
                               newStock |-> c.newStock]}
                      /\ UNCHANGED <<req, res, served>>
        /\ UNCHANGED <<lastGet, lastClose, client>>

\* the transaction of POST /api/inventory/move and its response
FinishMove ==
    \E f \in frames :
        /\ f.r.op = "recordMovement"
        /\ LET t == MoveTransaction(db, f.session, f.r.product_id, f.r.type,
                                    f.r.quantity, f.r.reason, f.newStock)
           IN /\ db' = t.db
              /\ res' = t.res
        /\ req' = f.r
        /\ served' = served + 1
        /\ frames' = frames \ {f}
        /\ UNCHANGED <<used, lastGet, lastClose, inbox, client>>

\* POST /api/sales up to its transaction: the current session
BeginSale ==
    \E r \in inbox :
        /\ r.op = "checkout"
        /\ CanDispatch
        /\ inbox' = inbox \ {r}
        /\ used' = TRUE
        /\ LET s == getCurrentSession(db)
           IN /\ db' = s.db
              /\ frames' = frames \cup
                     {[r |-> r, session |-> s.id, read |-> 0, newStock |-> 0]}
        /\ UNCHANGED <<req, res, served, lastGet, lastClose, client>>

\* the transaction of POST /api/sales and its response
FinishSale ==
    \E f \in frames :
        /\ f.r.op = "checkout"
        /\ LET out == SaleResponse(SaleTransaction(db, f.session, f.r.items,
                                                   f.r.payment_method, f.r.total))
           IN /\ db' = out.db
              /\ res' = out.res
        /\ req' = f.r
        /\ served' = served + 1
        /\ frames' = frames \ {f}
        /\ UNCHANGED <<used, lastGet, lastClose, inbox, client>>

\* a database holding one product, with or without a session yet
InitConc ==
    /\ \E stock \in ConcStocks, sessions \in {<<>>, <<[is_closed |-> 0, end_time |-> NULL]>>} :
          db = [EmptyDB EXCEPT
                   !.products = <<[name |-> "a", price |-> 1, stock |-> stock,
                                   initial_stock |-> stock, deleted |-> 0]>>,
                   !.sessions = sessions]
    /\ req = [op |-> "none"]
    /\ res = Resp(0, "", <<>>)
    /\ served = 0
    /\ used = FALSE
    /\ lastGet = NoGet
    /\ lastClose = NoClose
    /\ inbox = {}
    /\ frames = {}
    /\ ClientInit

NextConc ==
    \/ ReceiveMove
    \/ ReceiveSale
    \/ BeginMove
    \/ FinishMove
    \/ BeginSale
    \/ FinishSale

SpecConc == InitConc /\ [][NextConc]_vars

(***************************************************************************)
(* The catalog under a wider range of product data: two names, two prices  *)
(* and two stocks, and a negative price or stock, with one-item sales and  *)
(* entries of the first product, closes, listings and reports in between.  *)
(***************************************************************************)
CatalogProducts ==
    {[name |-> "a", price |-> 1, stock |-> 1],
     [name |-> "b", price |-> 2, stock |-> 2],
     [name |-> "a", price |-> -1, stock |-> 1],
     [name |-> "b", price |-> 2, stock |-> -1]}
CatalogItemLists == {<<[id |-> 1, quantity |-> 1, price |-> p]>> : p \in ItemPrices}

CatalogAddProduct ==
    \E p \in CatalogProducts :
        Serve([op |-> "addProduct", name |-> p.name, price |-> p.price,
               initial_stock |-> p.stock],
              AddProductHandler(db, p.name, p.price, p.stock))

CatalogUpdateProduct ==
    \E id \in IdParams, p \in CatalogProducts :
        Serve([op |-> "updateProduct", id |-> id, name |-> p.name,
               price |-> p.price, stock |-> p.stock],
              UpdateProductHandler(db, id, p.name, p.price, p.stock))

CatalogRecordMovement ==
    \E r \in Reasons :
        Serve([op |-> "recordMovement", product_id |-> 1, type |-> "entry",
               quantity |-> 1, reason |-> r],
              MoveHandler(db, 1, "entry", 1, r))

CatalogCheckout ==
    \E items \in CatalogItemLists, total \in Totals :
        Serve([op |-> "checkout", items |-> items, payment_method |-> "cash",
               total |-> total],
              SaleHandler(db, items, "cash", total))

NextCatalog ==
    \/ CatalogAddProduct
    \/ CatalogUpdateProduct
    \/ DeleteProduct
    \/ ListProducts
    \/ CatalogRecordMovement
    \/ CatalogCheckout
    \/ CloseSession
    \/ ReportForSession

SpecCatalog == Init /\ [][NextCatalog]_vars

(***************************************************************************)
(* The cart of the App component.  fetchProducts replaces the product list *)
(* by what GET /api/products answers, which is any list of products with   *)
(* any stocks; the cart is kept across refreshes.  A cart item is a copy   *)
(* of the product as it was when it was added, with a quantity; a product  *)
(* is shown here by its id and its stock.                                  *)
(***************************************************************************)
Min(S) == CHOOSE x \in S : \A y \in S : x <= y

ListStocks == {0, 1, 2}
Deltas == {-1, 1}
ProductLists ==
    {<<[id |-> 1, stock |-> a]>> : a \in ListStocks}
        \cup {<<[id |-> 1, stock |-> a], [id |-> 2, stock |-> b]>> :
                a \in ListStocks, b \in ListStocks}

\* prev.find(item => item.id === id) finds an item
InCart(prev, id) == \E k \in DOMAIN prev : prev[k].id = id

\* prev.find(item => item.id === id): the first such item
Existing(prev, id) == prev[Min({k \in DOMAIN prev : prev[k].id = id})]

addToCart(prev, product) ==
    IF product.stock <= 0 THEN prev
    ELSE IF InCart(prev, product.id)
    THEN IF Existing(prev, product.id).quantity >= product.stock THEN prev
         ELSE [k \in DOMAIN prev |->
                  IF prev[k].id = product.id
                  THEN [prev[k] EXCEPT !.quantity = @ + 1]
                  ELSE prev[k]]
    ELSE Append(prev, [id |-> product.id, stock |-> product.stock, quantity |-> 1])

removeFromCart(prev, productId) ==
    SelectSeq(prev, LAMBDA item : item.id # productId)

updateCartQuantity(prev, productId, delta) ==
    [k \in DOMAIN prev |->
        IF prev[k].id = productId
        THEN [prev[k] EXCEPT
                 !.quantity = Max({1, Min({prev[k].quantity + delta, prev[k].stock})})]
        ELSE prev[k]]

FetchProducts ==
    \E data \in ProductLists :
        /\ products' = data
        /\ call' = [fn |-> "fetchProducts"]
        /\ UNCHANGED <<cart, localStorage, server>>

AddToCart ==
    \E k \in DOMAIN products :
        /\ cart' = addToCart(cart, products[k])
        /\ call' = [fn |-> "addToCart", product |-> products[k]]
        /\ UNCHANGED <<products, localStorage, server>>

RemoveFromCart ==
    \E k \in DOMAIN cart :
        /\ cart' = removeFromCart(cart, cart[k].id)
        /\ call' = [fn |-> "removeFromCart", productId |-> cart[k].id]
        /\ UNCHANGED <<products, localStorage, server>>

UpdateCartQuantity ==
    \E k \in DOMAIN cart, delta \in Deltas :
        /\ cart' = updateCartQuantity(cart, cart[k].id, delta)
        /\ call' = [fn |-> "updateCartQuantity", productId |-> cart[k].id,
                    delta |-> delta]
        /\ UNCHANGED <<products, localStorage, server>>

NextCart ==
    \/ FetchProducts
    \/ AddToCart
    \/ RemoveFromCart
    \/ UpdateCartQuantity

SpecCart == Init /\ [][NextCart]_vars

(***************************************************************************)
(* The localStorage mirror.  Each action is the fallback path of one api   *)
(* function: the fetch failed, so the server is left alone and the         *)
(* function works on localStorage.  The code after the failed fetch has no *)
(* await, so it runs as one step.  Date.now() and new Date() of one call   *)
(* read the same clock value, which is any value of Times; two calls can   *)
(* read the same value.                                                    *)
(***************************************************************************)
MaxLocalRows == 4
Times == {1, 2}
LocalProducts == {[name |-> "a", price |-> 1, initial_stock |-> 1]}
LocalMoveTypes == {"entry", "waste"}
LocalSaleItems ==
    {<<>>} \cup {<<[id |-> t, name |-> "a", quantity |-> 1]>> : t \in Times}

\* the guard that keeps localStorage finite
LocalRows(ls) == Len(ls.sessions) + Len(ls.products) + Len(ls.movements) + Len(ls.sales)

\* the indexes of sessions.filter(s => s.is_closed === 0)
LocalOpen(sessions) == {k \in DOMAIN sessions : sessions[k].is_closed = 0}

\* new Date().toISOString() at clock value now
toISOString(now) == ToString(now)

NewLocalSession(now) ==
    [id |-> now, start_time |-> toISOString(now), is_closed |-> 0, end_time |-> NULL]

localDB_getCurrentSessionAlwaysNew(ls, now) ==
    [ls |-> [ls EXCEPT !.sessions = Append(@, NewLocalSession(now))],
     current |-> NewLocalSession(now)]

\* the storage after the call and the session it returns
localDB_getCurrentSession(ls, now) ==
    IF LocalOpen(ls.sessions) # {}
    THEN [ls |-> ls, current |-> ls.sessions[Min(LocalOpen(ls.sessions))]]
    ELSE [ls |-> [ls EXCEPT !.sessions = Append(@, NewLocalSession(now))],
          current |-> NewLocalSession(now)]

\* products.find(p => p.id === id): the index of the first such product, 0 if none
LocalFind(prods, id) ==
    IF \E k \in DOMAIN prods : prods[k].id = id
    THEN Min({k \in DOMAIN prods : prods[k].id = id})
    ELSE 0

\* sale.items.forEach(item => { p = products.find(...); if (p) p.stock -= item.quantity })
RECURSIVE LocalSellItems(_, _, _)
LocalSellItems(prods, items, k) ==
    IF k > Len(items) THEN prods
    ELSE LET i == LocalFind(prods, items[k].id) IN
         LocalSellItems(
            IF i = 0 THEN prods
            ELSE [prods EXCEPT ![i].stock = @ - items[k].quantity],
            items, k + 1)

LocalSaleMovements(items, session, now) ==
    [k \in DOMAIN items |->
        [product_id |-> items[k].id, product_name |-> items[k].name,
         type |-> "sale", quantity |-> items[k].quantity, reason |-> "Venta",
         session_id |-> session.id, timestamp |-> toISOString(now)]]

api_addProduct ==
    \E product \in LocalProducts, now \in Times :
        /\ LocalRows(localStorage) < MaxLocalRows
        /\ localStorage' =
              [localStorage EXCEPT !.products =
                  Append(@, [name |-> product.name, price |-> product.price,
                             initial_stock |-> product.initial_stock, id |-> now,
                             stock |-> product.initial_stock, deleted |-> 0])]
        /\ call' = [fn |-> "addProduct", product |-> product]
        /\ UNCHANGED <<products, cart, server>>

api_moveInventory ==
    \E product_id \in Times, type \in LocalMoveTypes, now \in Times :
        LET move == [product_id |-> product_id, type |-> type, quantity |-> 1,
                     reason |-> "r"]
            i == LocalFind(localStorage.products, product_id)
            moved == [localStorage EXCEPT !.products[i].stock =
                         IF type = "entry" THEN @ + move.quantity
                         ELSE @ - move.quantity]
            got == localDB_getCurrentSession(moved, now)
        IN  /\ LocalRows(localStorage) < MaxLocalRows
            /\ localStorage' =
                  IF i = 0 THEN localStorage
                  ELSE [got.ls EXCEPT !.movements =
                          Append(@, [product_id |-> product_id, type |-> type,
                                     quantity |-> move.quantity, reason |-> move.reason,
                                     product_name |-> localStorage.products[i].name,
                                     id |-> now, session_id |-> got.current.id,
                                     timestamp |-> toISOString(now)])]
            /\ call' = [fn |-> "moveInventory", move |-> move]
            /\ UNCHANGED <<products, cart, server>>

api_createSale ==
    \E items \in LocalSaleItems, now \in Times :
        LET sale == [items |-> items, total |-> Len(items), payment_method |-> "cash"]
            got == localDB_getCurrentSession(localStorage, now)
        IN  /\ LocalRows(localStorage) < MaxLocalRows
            /\ localStorage' =
                  [got.ls EXCEPT
                      !.products = LocalSellItems(@, items, 1),
                      !.sales = Append(@, [items |-> sale.items, total |-> sale.total,
                                           payment_method |-> sale.payment_method,
                                           id |-> now, session_id |-> got.current.id,
                                           timestamp |-> toISOString(now)]),
                      !.movements = @ \o LocalSaleMovements(items, got.current, now)]
            /\ call' = [fn |-> "createSale", sale |-> sale]
            /\ UNCHANGED <<products, cart, server>>

api_getCurrentReport ==
    \E now \in Times :
        /\ LocalRows(localStorage) < MaxLocalRows
        /\ localStorage' = localDB_getCurrentSession(localStorage, now).ls
        /\ call' = [fn |-> "getCurrentReport"]
        /\ UNCHANGED <<products, cart, server>>

api_closeSession ==
    \E now \in Times :
        LET sessions == localStorage.sessions
            open == LocalOpen(sessions)
        IN  /\ LocalRows(localStorage) < MaxLocalRows
            /\ localStorage' =
                  IF open = {} THEN localStorage
                  ELSE [localStorage EXCEPT !.sessions =
                          Append([@ EXCEPT ![Min(open)].is_closed = 1,
                                           ![Min(open)].end_time = toISOString(now)],
                                 NewLocalSession(now))]
            /\ call' = [fn |-> "closeSession"]
            /\ UNCHANGED <<products, cart, server>>

NextLocal ==
    \/ api_addProduct
    \/ api_moveInventory
    \/ api_createSale
    \/ api_getCurrentReport
    \/ api_closeSession

SpecLocal == Init /\ [][NextLocal]_vars

(***************************************************************************)
(* Vocabulary of the properties.                                           *)
(***************************************************************************)
AllStockNonNegative(d) == \A p \in DOMAIN d.products : d.products[p].stock >= 0

IsPrefix(a, b) == Len(a) <= Len(b) /\ SubSeq(b, 1, Len(a)) = a

\* the rows b holds after the rows of a
NewRows(a, b) == SubSeq(b, Len(a) + 1, Len(b))

\* the session an operation works in: the open one, found or just created
IsCurrentSession(d, dAfter, sid) ==
    /\ OpenSessions(dAfter) = {sid}
    /\ OpenSessions(d) # {} => sid \in OpenSessions(d)
    /\ OpenSessions(d) = {} => sid = Len(d.sessions) + 1

\* the total quantity the first k items ask of product pid
RECURSIVE SoldQty(_, _, _)
SoldQty(items, pid, k) ==
    IF k = 0 THEN 0
    ELSE SoldQty(items, pid, k - 1)
         + (IF items[k].id = pid THEN items[k].quantity ELSE 0)

\* the stock item k finds when its row is processed
StockWhenProcessed(d, items, k) ==
    d.products[items[k].id].stock - SoldQty(items, items[k].id, k - 1)

\* the loop gets as far as item k
Reached(d, items, k) ==
    \A j \in 1..(k - 1) :
        /\ items[j].id \in DOMAIN d.products
        /\ StockWhenProcessed(d, items, j) >= items[j].quantity

\* some item fails its stock check when its row is processed
StockFailure(d, items) ==
    \E k \in 1..Len(items) :
        /\ Reached(d, items, k)
        /\ items[k].id \in DOMAIN d.products
        /\ StockWhenProcessed(d, items, k) < items[k].quantity

LedgerUnchanged ==
    /\ db'.products = db.products
    /\ db'.movements = db.movements
    /\ db'.sales = db.sales
    /\ db'.sale_items = db.sale_items

(***************************************************************************)
(* C1: for every product stock >= 0 holds after any sequence of            *)
(* recordMovement and checkout calls, accepted or rejected, on products    *)
(* created with non-negative stock: no such call takes a catalog whose     *)
(* stocks are all non-negative to one with a negative stock.               *)
(***************************************************************************)
C1_StockNeverNegative ==
    [][(req'.op \in {"recordMovement", "checkout"} /\ AllStockNonNegative(db))
          => AllStockNonNegative(db')]_vars

(***************************************************************************)
(* C2: once some request has obtained the current session, every state     *)
(* between two requests holds exactly one session with is_closed = 0.      *)
(***************************************************************************)
C2_ExactlyOneOpenSession ==
    used => Cardinality(OpenSessions(db)) = 1

C2_Witness ==
    /\ used
    /\ req.op = "closeSession"
    /\ Len(db.sessions) >= 3
    /\ Cardinality(OpenSessions(db)) = 1

(***************************************************************************)
(* C3: a checkout in which some item finds stock < quantity when its row   *)
(* is processed fails with "Insufficient stock" and leaves no sale, no     *)
(* sale item, no sale movement and no stock decrement of that call.        *)
(***************************************************************************)
C3_CheckoutAtomicOnStockFailure ==
    [][(/\ req'.op = "checkout"
        /\ req'.payment_method \in SalePayments
        /\ StockFailure(db, req'.items))
          => (/\ res'.status = 400
              /\ res'.error = "Insufficient stock"
              /\ LedgerUnchanged)]_vars

\* the rejected call's first item was in stock and was staged before the failure
C3_Witness ==
    /\ req.op = "checkout"
    /\ res.error = "Insufficient stock"
    /\ Len(req.items) = 2
    /\ req.items[1].id # req.items[2].id
    /\ req.items[1].quantity > 0
    /\ req.items[1].id \in DOMAIN db.products
    /\ db.products[req.items[1].id].stock >= req.items[1].quantity

(***************************************************************************)
(* C4: a successful checkout inserts exactly one sale (current session,    *)
(* given total and payment method), one sale item and one "sale" movement  *)
(* with reason "Venta" per item, in order, lowers each product's stock by  *)
(* the quantities sold of it and no other stock, and returns the sale id.  *)
(***************************************************************************)
C4_CheckoutEffect ==
    [][(req'.op = "checkout" /\ res'.status = 200) =>
        LET items == req'.items
            saleId == Len(db.sales) + 1
            newItems == NewRows(db.sale_items, db'.sale_items)
            newMoves == NewRows(db.movements, db'.movements)
        IN \E sid \in DOMAIN db'.sessions :
            /\ IsCurrentSession(db, db', sid)
            /\ IsPrefix(db.sales, db'.sales)
            /\ NewRows(db.sales, db'.sales) =
                   <<[session_id |-> sid, total |-> req'.total,
                      payment_method |-> req'.payment_method]>>
            /\ res'.body.saleId = saleId
            /\ IsPrefix(db.sale_items, db'.sale_items)
            /\ newItems = [k \in 1..Len(items) |->
                             [sale_id |-> saleId, product_id |-> items[k].id,
                              quantity |-> items[k].quantity,
                              price_at_sale |-> items[k].price]]
            /\ IsPrefix(db.movements, db'.movements)
            /\ newMoves = [k \in 1..Len(items) |->
                             [session_id |-> sid, product_id |-> items[k].id,
                              type |-> "sale", quantity |-> items[k].quantity,
                              reason |-> "Venta"]]
            /\ DOMAIN db'.products = DOMAIN db.products
            /\ \A p \in DOMAIN db.products :
                   db'.products[p] =
                       [db.products[p] EXCEPT
                           !.stock = @ - SoldQty(items, p, Len(items))]
       ]_vars

\* a sale of two distinct products went through
C4_Witness ==
    /\ req.op = "checkout"
    /\ res.status = 200
    /\ Len(req.items) = 2
    /\ req.items[1].id # req.items[2].id
    /\ \A k \in 1..2 : req.items[k].quantity > 0
    /\ Len(db.sale_items) = 2

(***************************************************************************)
(* C5: a waste movement of more than the product's stock is rejected with  *)
(* "Insufficient stock for waste"; the stock stays and no movement row is  *)
(* inserted (nor any sale row).                                            *)
(***************************************************************************)
C5_WasteBeyondStockRejected ==
    [][(/\ req'.op = "recordMovement"
        /\ req'.type = "waste"
        /\ req'.product_id \in DOMAIN db.products
        /\ req'.quantity > db.products[req'.product_id].stock)
          => (/\ res'.status = 400
              /\ res'.error = "Insufficient stock for waste"
              /\ LedgerUnchanged)]_vars

C5_Witness ==
    /\ req.op = "recordMovement"
    /\ req.type = "waste"
    /\ res.status = 400
    /\ req.product_id \in DOMAIN db.products
    /\ req.quantity > db.products[req.product_id].stock
    /\ db.movements = <<>>

(***************************************************************************)
(* C6: a successful recordMovement of kind entry (waste) sets the stock to *)
(* stock + quantity (stock - quantity), appends exactly one movement row   *)
(* (product, kind, quantity, reason) stamped with the current session,     *)
(* returns the new stock, and alters no other product, no other field, no  *)
(* sale, no sale item and no existing session row; whatever the outcome,   *)
(* the stock write and the movement row come together or not at all.       *)
(***************************************************************************)
C6_RecordMovementEffect ==
    [][req'.op = "recordMovement" =>
        LET pid == req'.product_id
            q == req'.quantity
            expected == IF req'.type = "entry" THEN db.products[pid].stock + q
                        ELSE IF req'.type = "waste" THEN db.products[pid].stock - q
                        ELSE db.products[pid].stock
        IN /\ (res'.status = 200 /\ req'.type \in {"entry", "waste"}) =>
                \E sid \in DOMAIN db'.sessions :
                    /\ IsCurrentSession(db, db', sid)
                    /\ db'.products = [db.products EXCEPT ![pid].stock = expected]
                    /\ IsPrefix(db.movements, db'.movements)
                    /\ NewRows(db.movements, db'.movements) =
                           <<[session_id |-> sid, product_id |-> pid,
                              type |-> req'.type, quantity |-> q,
                              reason |-> req'.reason]>>
                    /\ res'.body.newStock = expected
                    /\ db'.sales = db.sales
                    /\ db'.sale_items = db.sale_items
                    /\ IsPrefix(db.sessions, db'.sessions)
           /\ \/ db'.movements = db.movements /\ db'.products = db.products
              \/ /\ Len(db'.movements) = Len(db.movements) + 1
                 /\ db'.products = [db.products EXCEPT ![pid].stock = expected]
       ]_vars

\* a waste of a positive quantity was accepted while another product exists
C6_Witness ==
    /\ req.op = "recordMovement"
    /\ res.status = 200
    /\ req.type = "waste"
    /\ req.quantity > 0
    /\ Len(db.products) = 2
    /\ Len(db.movements) = 1

MutatingOps == {"recordMovement", "checkout", "addProduct", "updateProduct",
                "softDeleteProduct", "closeSession"}

(***************************************************************************)
(* C7: every mutating operation is all-or-nothing: a recordMovement,       *)
(* checkout, addProduct, updateProduct, softDeleteProduct or closeSession  *)
(* call that fails leaves the products, the sessions, the movements, the   *)
(* sales and the sale items exactly as they were before the call.          *)
(***************************************************************************)
C7_FailedCallChangesNothing ==
    [][(req'.op \in MutatingOps /\ res'.status # 200) => db' = db]_vars

(***************************************************************************)
(* C8: closeSession returns {closed_id, new_id}: closed_id is the session  *)
(* that was open (found or created) when the call began and is now closed  *)
(* with an end time, new_id is another, newly created open session; a      *)
(* getCurrentSession with no close in between returns new_id and not       *)
(* closed_id; two closes in a row close two distinct sessions in turn.     *)
(***************************************************************************)
C8_CloseSessionResult ==
    [][/\ req'.op = "closeSession" =>
            LET b == res'.body
            IN /\ res'.status = 200
               /\ OpenSessions(db) # {} => b.closed_id \in OpenSessions(db)
               /\ OpenSessions(db) = {} => b.closed_id = Len(db.sessions) + 1
               /\ b.closed_id \in DOMAIN db'.sessions
               /\ db'.sessions[b.closed_id].is_closed = 1
               /\ db'.sessions[b.closed_id].end_time # NULL
               /\ b.new_id # b.closed_id
               /\ b.new_id \notin DOMAIN db.sessions
               /\ b.new_id \in DOMAIN db'.sessions
               /\ db'.sessions[b.new_id] = [is_closed |-> 0, end_time |-> NULL]
               /\ req.op = "closeSession" =>
                      /\ b.closed_id # res.body.closed_id
                      /\ b.closed_id = res.body.new_id
       /\ (req'.op = "getCurrentSession" /\ lastClose # NoClose) =>
            /\ res'.body.id = lastClose.new_id
            /\ res'.body.id # lastClose.closed_id
      ]_vars

\* two closes, the second of session 2, then some other request, then the
\* current session is asked for
C8_Witness ==
    /\ req.op = "getCurrentSession"
    /\ lastClose.closed_id = 2
    /\ res.body.id = lastClose.new_id
    /\ served = 4

(***************************************************************************)
(* C10: getCurrentSession is idempotent: with no closeSession in between,  *)
(* every further call returns the id the one before returned and changes   *)
(* nothing; a call inserts a session row only when no session is open,     *)
(* and then exactly one.                                                   *)
(***************************************************************************)
C10_GetCurrentSessionIdempotent ==
    [][req'.op = "getCurrentSession" =>
        /\ lastGet # NoGet => (res'.body.id = lastGet.id /\ db' = db)
        /\ db' # db =>
              /\ OpenSessions(db) = {}
              /\ db' = [db EXCEPT !.sessions =
                           Append(@, [is_closed |-> 0, end_time |-> NULL])]
              /\ res'.body.id = Len(db'.sessions)
       ]_vars

\* the third call in a row, the first of which created the session
C10_Witness ==
    /\ req.op = "getCurrentSession"
    /\ lastGet.n >= 3
    /\ lastGet.id = res.body.id
    /\ Len(db.sessions) = 1

(***************************************************************************)
(* C9: under any interleaving of concurrently issued movement and sale     *)
(* requests, no other request writes a product between a handler's stock   *)
(* check and its stock write: the write of a movement is made to the stock *)
(* its check read, and a checkout or a waste never takes a non-negative    *)
(* stock below zero.                                                       *)
(***************************************************************************)
C9_CheckAndWriteNotSeparated ==
    [][\A f \in frames :
          /\ f \in frames' => db'.products = db.products
          /\ f \notin frames' =>
               /\ f.r.op = "recordMovement" =>
                      db.products[f.r.product_id].stock = f.read
               /\ (\/ f.r.op = "checkout"
                   \/ (f.r.op = "recordMovement" /\ f.r.type = "waste"))
                    => (AllStockNonNegative(db) => AllStockNonNegative(db'))
      ]_vars

\* a waste took the last unit while a sale of the same product, received
\* before the waste was served, is still waiting
C9_Witness ==
    /\ req.op = "recordMovement"
    /\ req.type = "waste"
    /\ req.quantity > 0
    /\ res.status = 200
    /\ db.products[req.product_id].stock = 0
    /\ \E r \in inbox :
          /\ r.op = "checkout"
          /\ r.items[1].id = req.product_id
          /\ r.items[1].quantity > 0

(***************************************************************************)
(* C11: the only transition of a session is OPEN -> CLOSED and only        *)
(* closeSession makes it: a session with is_closed = 1 keeps its flag and  *)
(* its end time through every request, an open session is left as it is or *)
(* closed with an end time, no session row disappears, and a request that  *)
(* closes a session is a closeSession.                                     *)
(***************************************************************************)
C11_OnlyCloseSessionCloses ==
    [][/\ \A i \in DOMAIN db.sessions :
            /\ i \in DOMAIN db'.sessions
            /\ db.sessions[i].is_closed = 1 => db'.sessions[i] = db.sessions[i]
            /\ db.sessions[i].is_closed = 0 =>
                  \/ db'.sessions[i] = db.sessions[i]
                  \/ db'.sessions[i] = [is_closed |-> 1, end_time |-> NOW]
       /\ (\E i \in DOMAIN db'.sessions :
              /\ db'.sessions[i].is_closed = 1
              /\ i \in DOMAIN db.sessions => db.sessions[i].is_closed = 0)
            => req'.op = "closeSession"
      ]_vars

\* session 1 was closed, and later requests, the last of them a stock change
\* that went through, left it closed with its end time
C11_Witness ==
    /\ req.op \in {"recordMovement", "checkout"}
    /\ res.status = 200
    /\ Len(db.sessions) = 2
    /\ db.sessions[1] = [is_closed |-> 1, end_time |-> NOW]
    /\ db.sessions[2].is_closed = 0
    /\ Len(db.movements) >= 1

(***************************************************************************)
(* C12: every movement row and every sale row carries the id of a session  *)
(* row; the rows a recordMovement or a checkout writes all carry the id of *)
(* the session that is open when the call runs (found or created by it),   *)
(* one id for all rows of one checkout; no request rewrites the session id *)
(* of a stored row, and no other request writes such rows.                 *)
(***************************************************************************)
C12_RowsCarryCurrentSession ==
    [][/\ IsPrefix(db.movements, db'.movements)
       /\ IsPrefix(db.sales, db'.sales)
       /\ \A i \in DOMAIN db'.movements :
              db'.movements[i].session_id \in DOMAIN db'.sessions
       /\ \A i \in DOMAIN db'.sales :
              db'.sales[i].session_id \in DOMAIN db'.sessions
       /\ (db'.movements # db.movements \/ db'.sales # db.sales) =>
            /\ req'.op \in {"recordMovement", "checkout"}
            /\ \E sid \in DOMAIN db'.sessions :
                  /\ IsCurrentSession(db, db', sid)
                  /\ \A i \in (DOMAIN db'.movements) \ (DOMAIN db.movements) :
                         db'.movements[i].session_id = sid
                  /\ \A i \in (DOMAIN db'.sales) \ (DOMAIN db.sales) :
                         db'.sales[i].session_id = sid
      ]_vars

\* a sale of two items after a close: the sale and both movements carry
\* session 2
C12_Witness ==
    /\ req.op = "checkout"
    /\ res.status = 200
    /\ Len(req.items) = 2
    /\ Len(db.sessions) = 2
    /\ db.sessions[1].is_closed = 1
    /\ Len(db.sales) = 1
    /\ db.sales[1].session_id = 2
    /\ Len(db.movements) = 2
    /\ \A i \in 1..2 : db.movements[i].session_id = 2

(***************************************************************************)
(* C13: a recordMovement of kind entry or waste with quantity <= 0 is      *)
(* rejected and changes nothing: the stock stays and no movement row is    *)
(* inserted.                                                               *)
(***************************************************************************)
C13_NonPositiveQuantityRejected ==
    [][(/\ req'.op = "recordMovement"
        /\ req'.type \in {"entry", "waste"}
        /\ req'.quantity <= 0)
          => (res'.status # 200 /\ LedgerUnchanged)]_vars

(***************************************************************************)
(* C14: a recordMovement (of a positive quantity) on a product id that has *)
(* no row, or whose row is soft-deleted, fails with 404 and changes        *)
(* neither a stock nor the movements.                                      *)
(***************************************************************************)
C14_MissingOrDeletedProductRejected ==
    [][(/\ req'.op = "recordMovement"
        /\ req'.quantity > 0
        /\ \/ req'.product_id \notin DOMAIN db.products
           \/ db.products[req'.product_id].deleted = 1)
          => (res'.status = 404 /\ LedgerUnchanged)]_vars

\* the movement rows of kind sale, in the order they were written
SaleMovements(d) == SelectSeq(d.movements, LAMBDA m : m.type = "sale")

(***************************************************************************)
(* C15: in every reachable state every movement row of kind sale was       *)
(* written by a checkout together with a sale item of the same product and *)
(* quantity: the sale movements and the sale items pair off one to one, in *)
(* order.                                                                  *)
(***************************************************************************)
C15_SaleMovementsOnlyFromCheckout ==
    /\ Len(SaleMovements(db)) = Len(db.sale_items)
    /\ \A k \in DOMAIN db.sale_items :
          /\ SaleMovements(db)[k].product_id = db.sale_items[k].product_id
          /\ SaleMovements(db)[k].quantity = db.sale_items[k].quantity

(***************************************************************************)
(* C16: the sale items and the sales are append-only: no request, an       *)
(* updateProduct that changes the product's price, a soft delete, a later  *)
(* checkout or a closeSession included, changes the price_at_sale, the     *)
(* quantity or the product id of a stored sale item or the total of a      *)
(* stored sale.                                                            *)
(***************************************************************************)
C16_SaleRowsNeverRevised ==
    [][/\ IsPrefix(db.sale_items, db'.sale_items)
       /\ IsPrefix(db.sales, db'.sales)]_vars

\* product 1, created as "a" with stock 1 (and so with price 1 or -1), was
\* sold at 3 and then updated to "b" at price 2
C16_Witness ==
    /\ req.op = "updateProduct"
    /\ res.status = 200
    /\ res.body.changes = 1
    /\ parseInt(req.id).val = 1
    /\ db.products[1].initial_stock = 1
    /\ db.products[1].price = 2
    /\ Len(db.sale_items) = 1
    /\ db.sale_items[1] = [sale_id |-> 1, product_id |-> 1, quantity |-> 1,
                           price_at_sale |-> 3]
    /\ db.sales[1].total = 3

\* the price, or the stock, of an addProduct or updateProduct request is
\* negative
NegativePriceOrStock(r) ==
    \/ r.price < 0
    \/ (r.op = "addProduct" /\ r.initial_stock < 0)
    \/ (r.op = "updateProduct" /\ r.stock < 0)

(***************************************************************************)
(* C17: addProduct and updateProduct reject a negative price or stock: the *)
(* call fails, addProduct inserts no row and updateProduct leaves the      *)
(* stored row as it was.                                                   *)
(***************************************************************************)
C17_NegativePriceOrStockRejected ==
    [][(/\ req'.op \in {"addProduct", "updateProduct"}
        /\ NegativePriceOrStock(req'))
          => (res'.status # 200 /\ db'.products = db.products)]_vars

(***************************************************************************)
(* C18: updateProduct and softDeleteProduct with a numeric id that matches *)
(* no product row, and updateProduct of a soft-deleted product, fail with  *)
(* 404 and change nothing.                                                 *)
(***************************************************************************)
C18_NoRowMatchedIsNotFound ==
    [][(/\ req'.op \in {"updateProduct", "softDeleteProduct"}
        /\ ~parseInt(req'.id).isNaN
        /\ \/ parseInt(req'.id).val \notin DOMAIN db.products
           \/ /\ req'.op = "updateProduct"
              /\ db.products[parseInt(req'.id).val].deleted = 1)
          => (res'.status = 404 /\ db' = db)]_vars

(***************************************************************************)
(* C19: a successful updateProduct that matched a row overwrites the name, *)
(* the price and the stock of that product with the given values and does  *)
(* nothing else: no movement row, initial_stock and deleted as they were,  *)
(* every other product, session, sale and sale item unchanged; one that    *)
(* matched no row changes nothing.                                         *)
(***************************************************************************)
C19_UpdateProductEffect ==
    [][(req'.op = "updateProduct" /\ res'.status = 200) =>
        LET id == parseInt(req'.id).val
        IN IF res'.body.changes = 1
           THEN /\ id \in DOMAIN db.products
                /\ db'.products[id] =
                       [name |-> req'.name, price |-> req'.price,
                        stock |-> req'.stock,
                        initial_stock |-> db.products[id].initial_stock,
                        deleted |-> db.products[id].deleted]
                /\ DOMAIN db'.products = DOMAIN db.products
                /\ \A p \in DOMAIN db.products \ {id} :
                       db'.products[p] = db.products[p]
                /\ db'.movements = db.movements
                /\ db'.sessions = db.sessions
                /\ db'.sales = db.sales
                /\ db'.sale_items = db.sale_items
           ELSE db' = db
      ]_vars

\* product 1, created as "a" with stock 1 and since restocked, is now "b" at
\* price 2 with the stock of the request, while another product exists
C19_Witness ==
    /\ req.op = "updateProduct"
    /\ res.status = 200
    /\ res.body.changes = 1
    /\ parseInt(req.id).val = 1
    /\ Len(db.products) = 2
    /\ Len(db.movements) = 1
    /\ db.products[1].initial_stock = 1
    /\ db.products[1].name = "b"
    /\ db.products[1].price = 2
    /\ db.products[1].stock = req.stock

(***************************************************************************)
(* C20: a soft delete sets the deleted flag of the product and nothing     *)
(* else (its row, the movements and the sale items stay as they are); no   *)
(* request clears the flag or removes the row, and listProducts returns    *)
(* exactly the products whose flag is not set, so a deleted product never  *)
(* appears in it again; reportForSession still returns every movement of   *)
(* the session, those of deleted products included, with the name in the   *)
(* product's row.                                                          *)
(***************************************************************************)
C20_SoftDeleteHidesButKeeps ==
    [][/\ \A p \in DOMAIN db.products :
            /\ p \in DOMAIN db'.products
            /\ db.products[p].deleted = 1 => db'.products[p].deleted = 1
       /\ (req'.op = "softDeleteProduct" /\ res'.status = 200) =>
            IF res'.body.changes = 1
            THEN db' = [db EXCEPT !.products[parseInt(req'.id).val].deleted = 1]
            ELSE db' = db
       /\ req'.op = "listProducts" =>
            /\ db' = db
            /\ res'.body = {p \in DOMAIN db.products : db.products[p].deleted = 0}
       /\ req'.op = "reportForSession" =>
            /\ db' = db
            /\ \A j \in DOMAIN db.movements :
                  MatchesId(req'.id, db.movements[j].session_id) =>
                      [id |-> j,
                       product_name |-> db.products[db.movements[j].product_id].name]
                          \in res'.body.movements
      ]_vars

\* the report of a session returns a movement of a product that is deleted
C20_Witness ==
    /\ req.op = "reportForSession"
    /\ \E m \in res.body.movements :
          /\ db.products[db.movements[m.id].product_id].deleted = 1
          /\ m.product_name = db.products[db.movements[m.id].product_id].name
          /\ db.products[db.movements[m.id].product_id].stock
                 # db.products[db.movements[m.id].product_id].initial_stock

(***************************************************************************)
(* C21: a checkout whose items sequence is empty, or in which some item    *)
(* has quantity <= 0, is rejected and changes nothing: no sale, no sale    *)
(* item, no movement, no stock change.                                     *)
(***************************************************************************)
C21_EmptyOrNonPositiveCartRejected ==
    [][(/\ req'.op = "checkout"
        /\ \/ req'.items = <<>>
           \/ \E k \in DOMAIN req'.items : req'.items[k].quantity <= 0)
          => (res'.status # 200 /\ LedgerUnchanged)]_vars

(***************************************************************************)
(* C22: reportForSession(sessionId) changes no row of any table and        *)
(* answers with exactly the sales whose session id is sessionId and        *)
(* exactly the movements whose session id is sessionId, each with the name *)
(* of its product.                                                         *)
(***************************************************************************)
C22_ReportIsPureRead ==
    [][req'.op = "reportForSession" =>
        /\ db' = db
        /\ res'.status = 200
        /\ res'.body.sales =
               {i \in DOMAIN db.sales : MatchesId(req'.id, db.sales[i].session_id)}
        /\ res'.body.movements =
               {[id |-> j,
                 product_name |-> db.products[db.movements[j].product_id].name] :
                    j \in {i \in DOMAIN db.movements :
                             MatchesId(req'.id, db.movements[i].session_id)}}
      ]_vars

\* one sale in session 1, one in session 2, and the report of session 1
\* answers with the first only
C22_Witness ==
    /\ req.op = "reportForSession"
    /\ Len(db.sessions) = 2
    /\ Len(db.sales) = 2
    /\ db.sales[1].session_id = 1
    /\ db.sales[2].session_id = 2
    /\ res.body.sales = {1}

(***************************************************************************)
(* C23: addProduct inserts one product with stock = initial_stock = the    *)
(* given initial stock and deleted = 0, and no request (recordMovement,    *)
(* checkout, updateProduct, softDeleteProduct, closeSession included)      *)
(* changes the initial_stock of a stored product; only addProduct inserts  *)
(* products.                                                               *)
(***************************************************************************)
C23_InitialStockIsImmutable ==
    [][/\ \A p \in DOMAIN db.products :
            /\ p \in DOMAIN db'.products
            /\ db'.products[p].initial_stock = db.products[p].initial_stock
       /\ (req'.op = "addProduct" /\ res'.status = 200) =>
            /\ db'.products =
                   Append(db.products,
                          [name |-> req'.name, price |-> req'.price,
                           stock |-> req'.initial_stock,
                           initial_stock |-> req'.initial_stock, deleted |-> 0])
            /\ res'.body.id = Len(db'.products)
       /\ Len(db'.products) # Len(db.products) => req'.op = "addProduct"
      ]_vars

\* product 1, created with initial stock 2, was since updated to "a" with
\* stock 1 and sold out
C23_Witness ==
    /\ req.op = "checkout"
    /\ res.status = 200
    /\ Len(db.products) = 1
    /\ db.products[1].initial_stock = 2
    /\ db.products[1].name = "a"
    /\ db.products[1].stock = 0

(***************************************************************************)
(* C24: the ledger is append-only: every request leaves the stored         *)
(* movements, sales and sale items as they are, adding rows at the end     *)
(* only, and removes no product and no session, so that the ids of all     *)
(* five tables only grow.                                                  *)
(***************************************************************************)
C24_LedgerAppendOnly ==
    [][/\ IsPrefix(db.movements, db'.movements)
       /\ IsPrefix(db.sales, db'.sales)
       /\ IsPrefix(db.sale_items, db'.sale_items)
       /\ DOMAIN db.products \subseteq DOMAIN db'.products
       /\ DOMAIN db.sessions \subseteq DOMAIN db'.sessions
      ]_vars

\* an entry, a sale and then a close, the rows of the first three requests
\* still there
C24_Witness ==
    /\ req.op = "closeSession"
    /\ served = 4
    /\ Len(db.sessions) = 2
    /\ Len(db.products) = 1
    /\ Len(db.sales) = 1
    /\ Len(db.sale_items) = 1
    /\ Len(db.movements) = 2
    /\ db.movements[1].type = "entry"
    /\ db.movements[2].type = "sale"

\* every item of the cart names a product that has a row
AllItemsKnown(d, items) == \A k \in DOMAIN items : items[k].id \in DOMAIN d.products

\* no product of the cart is asked for more, over the whole cart, than its
\* stock
CartWithinStock(d, items) ==
    \A k \in DOMAIN items :
        SoldQty(items, items[k].id, Len(items)) <= d.products[items[k].id].stock

(***************************************************************************)
(* C25: in a checkout the stock check of an item reads the stock as the    *)
(* earlier items of the same call left it: a call succeeds only if every   *)
(* item finds stock >= quantity after the earlier items, hence only if,    *)
(* for every product, the sum of the quantities asked of it is <= its      *)
(* stock before the call; with positive quantities that is also enough;    *)
(* a call that asks more than the stock of a product is rolled back whole. *)
(***************************************************************************)
C25_StockCheckSeesEarlierItems ==
    [][req'.op = "checkout" =>
        LET items == req'.items
        IN /\ res'.status = 200 =>
                /\ AllItemsKnown(db, items)
                /\ \A k \in DOMAIN items :
                       StockWhenProcessed(db, items, k) >= items[k].quantity
                /\ CartWithinStock(db, items)
           /\ (AllItemsKnown(db, items) /\ ~CartWithinStock(db, items)) =>
                (res'.status # 200 /\ LedgerUnchanged)
           /\ (/\ AllItemsKnown(db, items)
               /\ req'.payment_method \in SalePayments
               /\ \A k \in DOMAIN items : items[k].quantity > 0)
                => (res'.status = 200 <=> CartWithinStock(db, items))
      ]_vars

\* two items of one unit each of a product whose stock is 1: each is within
\* the stock, the two together are not, and the call was rejected
C25_Witness ==
    /\ req.op = "checkout"
    /\ res.status = 400
    /\ res.error = "Insufficient stock"
    /\ Len(req.items) = 2
    /\ req.items[1].id = req.items[2].id
    /\ req.items[1].quantity = 1
    /\ req.items[2].quantity = 1
    /\ req.items[1].id \in DOMAIN db.products
    /\ db.products[req.items[1].id].stock = 1
    /\ db.sales = <<>>

\* the sum of the quantities of the first k movements of a kind for product pid
RECURSIVE MovedQty(_, _, _, _)
MovedQty(d, pid, type, k) ==
    IF k = 0 THEN 0
    ELSE MovedQty(d, pid, type, k - 1)
         + (IF d.movements[k].product_id = pid /\ d.movements[k].type = type
            THEN d.movements[k].quantity ELSE 0)

\* the sum of the quantities of the first k sale items of product pid
RECURSIVE ItemQty(_, _, _)
ItemQty(d, pid, k) ==
    IF k = 0 THEN 0
    ELSE ItemQty(d, pid, k - 1)
         + (IF d.sale_items[k].product_id = pid THEN d.sale_items[k].quantity ELSE 0)

\* the stock of product pid is what its audit trail says, and its sale
\* movements add up to its sale items
Conserved(d, pid) ==
    /\ d.products[pid].stock =
           d.products[pid].initial_stock
           + MovedQty(d, pid, "entry", Len(d.movements))
           - MovedQty(d, pid, "waste", Len(d.movements))
           - MovedQty(d, pid, "sale", Len(d.movements))
    /\ MovedQty(d, pid, "sale", Len(d.movements)) = ItemQty(d, pid, Len(d.sale_items))

(***************************************************************************)
(* C26: stock is conserved against the audit trail: a product is created   *)
(* with stock = initial_stock + entries - wastes - sales and with its sale *)
(* movements adding up to its sale items, and every request other than an  *)
(* updateProduct keeps it so; hence the two equations hold in every state  *)
(* for every product on which updateProduct was never called.              *)
(***************************************************************************)
C26_StockConservedAgainstTrail ==
    [][req'.op # "updateProduct" =>
        \A p \in DOMAIN db'.products :
            (p \in DOMAIN db.products => Conserved(db, p)) => Conserved(db', p)
      ]_vars

\* the sales and the movement rows of session s
SaleIdsOf(d, s) == {i \in DOMAIN d.sales : d.sales[i].session_id = s}
MovementIdsOf(d, s) == {j \in DOMAIN d.movements : d.movements[j].session_id = s}

(***************************************************************************)
(* C27 as stated: once a session is closed, reportForSession of it returns *)
(* the same sales and the same movements, product names included, in every *)
(* later state.                                                            *)
(***************************************************************************)
C27_ClosedSessionReportFrozen ==
    [][\A s \in DOMAIN db.sessions :
          db.sessions[s].is_closed = 1 =>
              /\ SalesOf(db', {s}) = SalesOf(db, {s})
              /\ MovementsOf(db', {s}) = MovementsOf(db, {s})
      ]_vars

(***************************************************************************)
(* C27: a closed session is frozen: no request inserts a sale or a         *)
(* movement with the id of a session that is closed, so the report of a    *)
(* closed session returns the same sales and the same movement rows in     *)
(* every later state; only the product name joined to a movement follows   *)
(* the product's row.                                                      *)
(***************************************************************************)
C27_ClosedSessionFrozen ==
    [][\A s \in DOMAIN db.sessions :
          db.sessions[s].is_closed = 1 =>
              /\ SaleIdsOf(db', s) = SaleIdsOf(db, s)
              /\ MovementIdsOf(db', s) = MovementIdsOf(db, s)
              /\ \A i \in SaleIdsOf(db, s) : db'.sales[i] = db.sales[i]
              /\ \A j \in MovementIdsOf(db, s) : db'.movements[j] = db.movements[j]
              /\ SalesOf(db', {s}) = SalesOf(db, {s})
              /\ {m.id : m \in MovementsOf(db', {s})} =
                     {m.id : m \in MovementsOf(db, {s})}
      ]_vars

\* session 1 was closed holding a movement, and a movement recorded after
\* the close went to session 2
C27_Witness ==
    /\ req.op = "recordMovement"
    /\ res.status = 200
    /\ Len(db.sessions) = 2
    /\ db.sessions[1].is_closed = 1
    /\ Len(db.movements) = 2
    /\ db.movements[1].session_id = 1
    /\ db.movements[2].session_id = 2

(***************************************************************************)
(* C28: referential integrity holds in every reachable state: every        *)
(* movement and every sale item names a product that has a row, every sale *)
(* item names a sale that has a row, every movement and every sale names a *)
(* session that has a row; so the join with products in the report of a    *)
(* session drops none of its movements.                                    *)
(***************************************************************************)
C28_ReferentialIntegrity ==
    /\ \A j \in DOMAIN db.movements :
          /\ db.movements[j].product_id \in DOMAIN db.products
          /\ db.movements[j].session_id \in DOMAIN db.sessions
    /\ \A k \in DOMAIN db.sale_items :
          /\ db.sale_items[k].product_id \in DOMAIN db.products
          /\ db.sale_items[k].sale_id \in DOMAIN db.sales
    /\ \A i \in DOMAIN db.sales : db.sales[i].session_id \in DOMAIN db.sessions
    /\ \A s \in DOMAIN db.sessions :
          {m.id : m \in MovementsOf(db, {s})} = MovementIdsOf(db, s)

\* the report of a session with an entry and a sale of two items answers with
\* all three movements
C28_Witness ==
    /\ req.op = "reportForSession"
    /\ Len(db.sale_items) = 2
    /\ Len(db.movements) = 3
    /\ Cardinality(res.body.movements) = 3
    /\ res.body.sales = {1}

\* each product id is in at most one cart item, and every quantity is between
\* 1 and the stock recorded in its item
CartWithinRecordedStock(c) ==
    /\ \A i \in DOMAIN c : \A j \in DOMAIN c : c[i].id = c[j].id => i = j
    /\ \A i \in DOMAIN c : 1 <= c[i].quantity /\ c[i].quantity <= c[i].stock

(***************************************************************************)
(* C29: after any sequence of addToCart, updateCartQuantity and            *)
(* removeFromCart calls and refreshes of the product list, each product id *)
(* is in at most one cart item and every cart item's quantity q satisfies  *)
(* 1 <= q <= the stock recorded in the item; an addToCart of a product     *)
(* with stock <= 0 leaves the cart unchanged.                              *)
(***************************************************************************)
C29_CartWithinRecordedStock ==
    [][/\ CartWithinRecordedStock(cart) => CartWithinRecordedStock(cart')
       /\ (call'.fn = "addToCart" /\ call'.product.stock <= 0) => cart' = cart
      ]_vars

(***************************************************************************)
(* C30: in the localStorage mirror, after any sequence of fallback-path    *)
(* calls of api.closeSession, api.moveInventory, api.createSale and        *)
(* api.getCurrentReport, the local sessions list holds at most one session *)
(* with is_closed = 0, and a fallback closeSession that finds an open      *)
(* session closes it and appends exactly one new open session.             *)
(***************************************************************************)
C30_LocalAtMostOneOpenSession ==
    [][LET sessions == localStorage.sessions
           after == localStorage'.sessions
           open == LocalOpen(sessions)
       IN  /\ Cardinality(LocalOpen(after)) <= 1
           /\ (call'.fn = "closeSession" /\ open # {}) =>
                 /\ Len(after) = Len(sessions) + 1
                 /\ \A k \in open : after[k].is_closed = 1 /\ after[k].end_time # NULL
                 /\ \A k \in DOMAIN sessions \ open : after[k] = sessions[k]
                 /\ after[Len(after)].is_closed = 0
                 /\ after[Len(after)].end_time = NULL
      ]_vars

\* a fallback closeSession has closed the session that a fallback move
\* created, and the list holds the closed session and the one new open session
C30_Witness ==
    /\ call.fn = "closeSession"
    /\ Len(localStorage.sessions) = 2
    /\ localStorage.sessions[1].is_closed = 1
    /\ localStorage.sessions[2].is_closed = 0
    /\ localStorage.movements # <<>>

====
